---- MODULE Spec2Model ----
(***************************************************************************)
(* Sleep-PhysioNet dataset fetchers of mne-python: the verified fetch of   *)
(* one file (_fetch_one), the cache-root resolver (data_path) and the two  *)
(* catalog front ends (age.fetch_data, temazepam.fetch_data).              *)
(*                                                                         *)
(* Strings are Python strings; BASE_URL + '/' + fname and op.join are      *)
(* string concatenations.  The filesystem is a function from the paths of  *)
(* the regular files that exist to their content, plus the set of          *)
(* directories that exist.  Filesystem calls themselves do not fail.       *)
(***************************************************************************)
EXTENDS Integers, Sequences, FiniteSets, TLC

VARIABLES
    disk,      \* path of every existing regular file |-> its content
    dirs,      \* the directories that exist
    config,    \* value of the MNE_DATASETS_PHYSIONET_SLEEP_PATH setting
    f1,        \* the running / last _fetch_one call
    f2,        \* the _fetch_one call of a second process on the same cache
    fd,        \* the running / last fetch_data call
    calls,     \* the _fetch_one calls the caller has observed, in order
    tlog,      \* the transport calls the caller has observed, in order
    ops        \* number of top-level calls made so far

vars == <<disk, dirs, config, f1, f2, fd, calls, tlog, ops>>

(***************************************************************************)
(* Bounds of the model.                                                    *)
(***************************************************************************)
MaxCalls == 3       \* direct _fetch_one calls in a run
MaxRequests == 2    \* fetch_data requests in a run
MaxSubjects == 2    \* length of a subjects list

(***************************************************************************)
(* Program constants.                                                      *)
(***************************************************************************)
BASE_URL == "https://physionet.org/pn4/sleep-edfx/"
AgeMaxSubject == 60
NoPath == "None"
NoFile == ""

(***************************************************************************)
(* Small helpers.                                                          *)
(***************************************************************************)
TwoDigits(n) == IF n < 10 THEN "0" \o ToString(n) ELSE ToString(n)

Min(S) == CHOOSE x \in S : \A y \in S : x <= y

RECURSIVE SortedSeq(_)
SortedSeq(S) == IF S = {} THEN <<>>
                ELSE <<Min(S)>> \o SortedSeq(S \ {Min(S)})

Range(s) == {s[k] : k \in DOMAIN s}

RECURSIVE JoinNumbers(_)
\* ', '.join([str(s) for s in seq])
JoinNumbers(seq) ==
    IF seq = <<>> THEN ""
    ELSE IF Len(seq) = 1 THEN ToString(seq[1])
    ELSE ToString(seq[1]) \o ", " \o JoinNumbers(Tail(seq))

(***************************************************************************)
(* File contents and checksums.  A content is what some download of a      *)
(* remote file produced: the file's genuine bytes or damaged bytes.        *)
(***************************************************************************)
Genuine(fname) == [of |-> fname, intact |-> TRUE]
Damaged(fname) == [of |-> fname, intact |-> FALSE]

Sha1(content) == IF content.intact THEN "sha1:" \o content.of
                 ELSE "sha1:damaged:" \o content.of

(***************************************************************************)
(* The catalogs.                                                           *)
(***************************************************************************)
\* physionet_sleep_records.npy: columns index, fname, sha; two rows
\* (PSG, Hypnogram) for every recording index 0..60.
AgeFname(index, type) ==
    "SC4" \o TwoDigits(index \div 2) \o ToString((index % 2) + 1)
          \o (IF type = "PSG" THEN "E0-PSG.edf" ELSE "EC-Hypnogram.edf")

AgeRecords ==
    [r \in 1..(2 * (AgeMaxSubject + 1)) |->
        LET index == (r - 1) \div 2
            type == IF r % 2 = 1 THEN "PSG" ELSE "Hypnogram"
        IN [index |-> index,
            fname |-> AgeFname(index, type),
            sha |-> Sha1(Genuine(AgeFname(index, type)))]]

\* records.csv of the temazepam study: subjects 1..24 without 3 and 23,
\* one row per night, each row naming the PSG and the hypnogram file.
TemazepamSubjectAt(k) == IF k <= 2 THEN k ELSE IF k <= 21 THEN k + 1 ELSE 24

TemazepamFname(subject, night, type) ==
    "ST7" \o TwoDigits(subject) \o ToString(night)
          \o (IF type = "PSG" THEN "J0-PSG.edf" ELSE "JP-Hypnogram.edf")

TemazepamRecords ==
    [r \in 1..44 |->
        LET subject == TemazepamSubjectAt((r + 1) \div 2)
            night == ((r - 1) % 2) + 1
        IN [subject |-> subject,
            record |-> IF night = 2 - (subject % 2) THEN "Placebo night"
                       ELSE "Temazepam night",
            hyp_sha |-> Sha1(Genuine(TemazepamFname(subject, night, "Hypnogram"))),
            psg_sha |-> Sha1(Genuine(TemazepamFname(subject, night, "PSG"))),
            hyp_fname |-> TemazepamFname(subject, night, "Hypnogram"),
            psg_fname |-> TemazepamFname(subject, night, "PSG")]]

(***************************************************************************)
(* Filesystem primitives.                                                  *)
(***************************************************************************)
Join(path, name) == path \o "/" \o name

IsFile(fs, p) == p \in DOMAIN fs

Remove(fs, p) == [q \in (DOMAIN fs) \ {p} |-> fs[q]]

WriteFile(fs, p, content) == [q \in (DOMAIN fs) \cup {p} |->
                                 IF q = p THEN content ELSE fs[q]]

(***************************************************************************)
(* data_path: the cache root of a request.                                 *)
(***************************************************************************)
\* mne.datasets.utils._get_path: explicit path, else the setting, else the
\* default directory under the home directory.
DefaultPath == "~/mne_data"

GetPath(path, setting) ==
    IF path # NoPath THEN path
    ELSE IF setting # NoPath THEN setting
    ELSE DefaultPath

\* faulty variant of line 124: the caller's path is not handed on
DataPath_IgnoresPath(path, setting) ==
    Join(GetPath(NoPath, setting), "physionet-sleep-data")

\* lines 122-125
DataPath(path, setting) == Join(GetPath(path, setting), "physionet-sleep-data")

(***************************************************************************)
(* _fetch_one(fname, hashsum, path, force_update)                          *)
(***************************************************************************)
\* faulty variant of line 130: the separator is left out
Url_BaseOnly(fname) == BASE_URL \o fname

\* line 130
Url(fname) == BASE_URL \o "/" \o fname

Destination(path, fname) == Join(path, fname)

\* faulty variants of line 132
NeedsFetch_OnlyForced(isfile, force_update) == force_update
NeedsFetch_Always(isfile, force_update) == TRUE
NeedsFetch_IgnoresForce(isfile, force_update) == ~isfile

\* line 132: the condition under which the file is (re-)downloaded
NeedsFetch(isfile, force_update) == (~isfile) \/ force_update

\* faulty variant of lines 133-134: the stale copy is left in place
RemoveStale_Keeps(fs, destination) == fs

\* lines 133-134: a stale copy is removed before the download
RemoveStale(fs, destination) ==
    IF IsFile(fs, destination) THEN Remove(fs, destination) ELSE fs

\* the directories above a cache root
Ancestors(dir) ==
    {b \in {"/data", "/conf", DefaultPath} : dir = Join(b, "physionet-sleep-data")}

\* faulty variant of lines 135-136: the directory is not created
MakeDirs_Skipped(ds, dir) == ds

\* lines 135-136: the parent directory (the cache root) is created when it
\* is absent, and with it the directories above it
MakeDirs(ds, dir) ==
    IF dir \in ds THEN ds ELSE ds \cup {dir} \cup Ancestors(dir)

IdleCall == [pc |-> "idle", fname |-> "", hashsum |-> "", path |-> "",
             force_update |-> FALSE, existed |-> FALSE, before |-> NoFile,
             ncalls |-> 0, err |-> "", gone |-> FALSE]

F1Dest == Destination(f1.path, f1.fname)

\* the frame of a call that has just been entered
EnterFetchOne(fname, hashsum, path, force_update) ==
    [pc |-> "check", fname |-> fname, hashsum |-> hashsum, path |-> path,
     force_update |-> force_update,
     existed |-> IsFile(disk, Destination(path, fname)),
     before |-> IF IsFile(disk, Destination(path, fname))
                THEN Sha1(disk[Destination(path, fname)]) ELSE NoFile,
     ncalls |-> 0, err |-> "",
     \* whether the destination held no file when the call returned
     gone |-> FALSE]

\* what the caller sees of a call it makes
CallEntry(fname, hashsum, path, force_update) ==
    [fname |-> fname, hashsum |-> hashsum, path |-> path,
     force_update |-> force_update]

F1Check ==
    /\ f1.pc = "check"
    /\ f1' = [f1 EXCEPT !.pc = IF NeedsFetch(IsFile(disk, F1Dest), f1.force_update)
                                THEN "remove" ELSE "return"]
    /\ UNCHANGED <<disk, dirs, config, fd, calls, tlog, ops, f2>>

F1Remove ==
    /\ f1.pc = "remove"
    /\ disk' = RemoveStale(disk, F1Dest)
    /\ f1' = [f1 EXCEPT !.pc = "mkdir"]
    /\ UNCHANGED <<dirs, config, fd, calls, tlog, ops, f2>>

F1MakeDirs ==
    /\ f1.pc = "mkdir"
    /\ dirs' = MakeDirs(dirs, f1.path)
    /\ f1' = [f1 EXCEPT !.pc = "fetch"]
    /\ UNCHANGED <<disk, config, fd, calls, tlog, ops, f2>>

\* lines 137-138: _fetch_file is invoked
F1FetchFile ==
    /\ f1.pc = "fetch"
    /\ tlog' = Append(tlog, [url |-> Url(f1.fname), destination |-> F1Dest,
                             hash_ |-> f1.hashsum, hash_type |-> "sha1",
                             result |-> "running"])
    /\ f1' = [f1 EXCEPT !.pc = "fetching", !.ncalls = @ + 1]
    /\ UNCHANGED <<disk, dirs, config, fd, calls, ops, f2>>

\* mne.utils._fetch_file: the transport.  It downloads some bytes and
\* writes the destination only when their checksum is the expected one.
TransportDone ==
    /\ f1.pc = "fetching"
    /\ \E content \in {Genuine(f1.fname), Damaged(f1.fname)} :
          IF Sha1(content) = f1.hashsum
          THEN /\ disk' = WriteFile(disk, F1Dest, content)
               /\ tlog' = [tlog EXCEPT ![Len(tlog)].result = "ok"]
               /\ f1' = [f1 EXCEPT !.pc = "return"]
          ELSE /\ tlog' = [tlog EXCEPT ![Len(tlog)].result = "failed"]
               /\ f1' = [f1 EXCEPT !.pc = "raised", !.err = "checksum mismatch"]
               /\ UNCHANGED disk
    /\ UNCHANGED <<dirs, config, fd, calls, ops, f2>>

\* the transport gives up on a network or HTTP error
TransportError ==
    /\ f1.pc = "fetching"
    /\ tlog' = [tlog EXCEPT ![Len(tlog)].result = "failed"]
    /\ f1' = [f1 EXCEPT !.pc = "raised", !.err = "network error"]
    /\ UNCHANGED <<disk, dirs, config, fd, calls, ops, f2>>

\* line 139
F1Return ==
    /\ f1.pc = "return"
    /\ f1' = [f1 EXCEPT !.pc = "returned"]
    /\ UNCHANGED <<disk, dirs, config, fd, calls, tlog, ops, f2>>

FetchOneSteps ==
    \/ F1Check
    \/ F1Remove
    \/ F1MakeDirs
    \/ F1FetchFile
    \/ TransportDone
    \/ TransportError
    \/ F1Return

(***************************************************************************)
(* fetch_data(subjects, path, force_update, ...) of the two catalogs.      *)
(* A request is one call; `recording` is the keyword the tests pass to     *)
(* the age catalog (NoRecording when the caller does not pass it).         *)
(***************************************************************************)
NoRecording == <<0>>

IdleRequest ==
    [pc |-> "idle", catalog |-> "", subjects |-> <<>>, path |-> NoPath,
     force_update |-> FALSE, recording |-> NoRecording,
     update_path |-> "None", root |-> "", i |-> 1, rows |-> <<>>, j |-> 1,
     psg |-> [fname |-> "", sha |-> ""], hyp |-> [fname |-> "", sha |-> ""],
     psg_fname |-> "", fnames |-> <<>>,
     err |-> "", msg |-> "", unknown |-> <<>>,
     \* what an observer of the request has seen so far
     emptyAtStart |-> FALSE, npaths |-> 0, looked |-> <<>>, fetched |-> <<>>,
     retried |-> FALSE, setting |-> NoPath]

Running == fd.pc \notin {"idle", "done", "raised"}
Ended == fd.pc \in {"done", "raised"}

\* the call itself: Python binds the arguments to the signature
\* (lines 143-144 / 77-78), which has no `recording` parameter
BindArguments(recording) == IF recording = NoRecording THEN "" ELSE "TypeError"

\* faulty variant of line 201: the assertion is not evaluated
AgeSubjectOK_Unchecked(subject) == TRUE

\* age, line 201
AgeSubjectOK(subject) == 0 <= subject /\ subject <= AgeMaxSubject

\* age, line 202: np.where(records['index'] == subject)[0]
AgeWhere(subject) ==
    SortedSeq({k \in DOMAIN AgeRecords : AgeRecords[k].index = subject})

\* temazepam, line 145: np.setdiff1d(subjects, np.unique(records['subject']))
TemazepamKnown == {TemazepamRecords[r].subject : r \in DOMAIN TemazepamRecords}

\* faulty variants of line 145: only the head of the list is validated;
\* only the first unknown subject is reported
UnknownSubjects_HeadOnly(subjects) ==
    SortedSeq({subjects[k] : k \in (DOMAIN subjects) \cap {1}} \ TemazepamKnown)
UnknownSubjects_FirstOnly(subjects) ==
    LET unknown == SortedSeq(Range(subjects) \ TemazepamKnown)
    IN IF unknown = <<>> THEN unknown ELSE <<unknown[1]>>

UnknownSubjects(subjects) == SortedSeq(Range(subjects) \ TemazepamKnown)

\* temazepam, lines 147-150
UnknownMessage(unknown) ==
    "Only subjects 1 to 24 (except 3 and 23) are"
    \o " available from public PhysioNet temazepam."
    \o " Unknown subjects: " \o JoinNumbers(unknown)

\* temazepam, line 157: np.where(records['subject'] == subject)[0]
TemazepamWhere(subject) ==
    SortedSeq({k \in DOMAIN TemazepamRecords :
                 TemazepamRecords[k].subject = subject})

\* faulty variant of line 158: every night of the subject is taken
IsPlacebo_AnyNight(row) == TRUE

\* temazepam, line 158
IsPlacebo(row) == row.record = "Placebo night"

StartFetchData(catalog, subjects, path, force_update, recording, update_path) ==
    /\ fd.pc = "idle"
    /\ f1.pc = "idle"
    /\ ops < MaxRequests
    /\ fd' = [IdleRequest EXCEPT
                !.pc = IF BindArguments(recording) # "" THEN "raised"
                       ELSE IF catalog = "age" THEN "data_path" ELSE "validate",
                !.err = BindArguments(recording),
                !.catalog = catalog, !.subjects = subjects, !.path = path,
                !.force_update = force_update, !.recording = recording,
                !.update_path = update_path,
                !.emptyAtStart = (DOMAIN disk = {})]
    /\ ops' = ops + 1
    /\ UNCHANGED <<disk, dirs, config, f1, calls, tlog, f2>>

\* temazepam, lines 145-150: the whole request is validated first
TemazepamValidate ==
    /\ fd.pc = "validate"
    /\ LET unknown == UnknownSubjects(fd.subjects)
       IN fd' = IF Len(unknown) > 0
                THEN [fd EXCEPT !.pc = "raised", !.err = "RuntimeError",
                                !.unknown = unknown,
                                !.msg = UnknownMessage(unknown)]
                ELSE [fd EXCEPT !.pc = "data_path"]
    /\ UNCHANGED <<disk, dirs, config, f1, calls, tlog, ops, f2>>

\* age lines 195-197, temazepam lines 152-153
ResolvePath ==
    /\ fd.pc = "data_path"
    /\ fd' = [fd EXCEPT !.pc = "loop", !.root = DataPath(fd.path, config),
                        !.npaths = @ + 1, !.setting = config]
    /\ UNCHANGED <<disk, dirs, config, f1, calls, tlog, ops, f2>>

\* faulty variant: the cache root is resolved again for the call
CallPsg_ResolvesAgain(frame, psg, hyp, pos) ==
    /\ fd' = [frame EXCEPT !.pc = "psg", !.psg = psg, !.hyp = hyp,
                           !.fetched = Append(@, pos),
                           !.root = DataPath(frame.path, config),
                           !.npaths = @ + 1]
    /\ f1' = EnterFetchOne(psg.fname, psg.sha, DataPath(frame.path, config),
                           frame.force_update)
    /\ calls' = Append(calls, CallEntry(psg.fname, psg.sha,
                                        DataPath(frame.path, config),
                                        frame.force_update))

\* faulty variant: the hypnogram is fetched before the PSG file
CallPsg_HypFirst(frame, psg, hyp, pos) ==
    /\ fd' = [frame EXCEPT !.pc = "psg", !.psg = hyp, !.hyp = psg,
                           !.fetched = Append(@, pos)]
    /\ f1' = EnterFetchOne(hyp.fname, hyp.sha, frame.root, frame.force_update)
    /\ calls' = Append(calls, CallEntry(hyp.fname, hyp.sha, frame.root,
                                        frame.force_update))

\* line 206 / lines 159-161: _fetch_one is called for the PSG file
CallPsg(frame, psg, hyp, pos) ==
    /\ fd' = [frame EXCEPT !.pc = "psg", !.psg = psg, !.hyp = hyp,
                           !.fetched = Append(@, pos)]
    /\ f1' = EnterFetchOne(psg.fname, psg.sha, frame.root, frame.force_update)
    /\ calls' = Append(calls, CallEntry(psg.fname, psg.sha, frame.root,
                                        frame.force_update))

\* age, lines 200-206: one turn of the loop up to the first _fetch_one call
AgeLoop ==
    /\ fd.pc = "loop"
    /\ fd.catalog = "age"
    /\ IF fd.i > Len(fd.subjects)
       THEN /\ fd' = [fd EXCEPT !.pc = "done"]
            /\ UNCHANGED <<f1, calls>>
       ELSE LET subject == fd.subjects[fd.i]
                idx == AgeWhere(subject)
                looked == [fd EXCEPT !.looked = Append(@, fd.i)]
            IN IF ~AgeSubjectOK(subject)
               THEN /\ fd' = [fd EXCEPT !.pc = "raised", !.err = "AssertionError"]
                    /\ UNCHANGED <<f1, calls>>
               ELSE IF Len(idx) # 2
               THEN /\ fd' = [looked EXCEPT !.pc = "raised", !.err = "ValueError"]
                    /\ UNCHANGED <<f1, calls>>
               ELSE CallPsg(looked,
                            [fname |-> AgeRecords[idx[1]].fname,
                             sha |-> AgeRecords[idx[1]].sha],
                            [fname |-> AgeRecords[idx[2]].fname,
                             sha |-> AgeRecords[idx[2]].sha],
                            fd.i)
    /\ UNCHANGED <<disk, dirs, config, tlog, ops, f2>>

\* temazepam, lines 156-157
TemazepamLoop ==
    /\ fd.pc = "loop"
    /\ fd.catalog = "temazepam"
    /\ fd' = IF fd.i > Len(fd.subjects)
             THEN [fd EXCEPT !.pc = "done"]
             ELSE [fd EXCEPT !.pc = "rows", !.j = 1,
                             !.rows = TemazepamWhere(fd.subjects[fd.i]),
                             !.looked = Append(@, fd.i)]
    /\ UNCHANGED <<disk, dirs, config, f1, calls, tlog, ops, f2>>

\* temazepam, lines 157-161: the next row of the subject
TemazepamRow ==
    /\ fd.pc = "rows"
    /\ IF fd.j > Len(fd.rows)
       THEN /\ fd' = [fd EXCEPT !.pc = "loop", !.i = @ + 1]
            /\ UNCHANGED <<f1, calls>>
       ELSE LET row == TemazepamRecords[fd.rows[fd.j]]
            IN IF IsPlacebo(row)
               THEN CallPsg(fd,
                            [fname |-> row.psg_fname, sha |-> row.psg_sha],
                            [fname |-> row.hyp_fname, sha |-> row.hyp_sha],
                            fd.i)
               ELSE /\ fd' = [fd EXCEPT !.j = @ + 1]
                    /\ UNCHANGED <<f1, calls>>
    /\ UNCHANGED <<disk, dirs, config, tlog, ops, f2>>

\* lines 206-207 / 159-164: the PSG path is kept, _fetch_one is called
\* for the hypnogram
AfterPsg ==
    /\ fd.pc = "psg"
    /\ f1.pc = "returned"
    /\ fd' = [fd EXCEPT !.pc = "hyp", !.psg_fname = F1Dest,
                        !.fetched = Append(@, fd.i)]
    /\ f1' = EnterFetchOne(fd.hyp.fname, fd.hyp.sha, fd.root, fd.force_update)
    /\ calls' = Append(calls, CallEntry(fd.hyp.fname, fd.hyp.sha, fd.root,
                                        fd.force_update))
    /\ UNCHANGED <<disk, dirs, config, tlog, ops, f2>>

\* line 208 / 165: the pair is appended, the loop goes on
AfterHyp ==
    /\ fd.pc = "hyp"
    /\ f1.pc = "returned"
    /\ fd' = [fd EXCEPT !.fnames = Append(@, <<fd.psg_fname, F1Dest>>),
                        !.pc = IF fd.catalog = "age" THEN "loop" ELSE "rows",
                        !.i = IF fd.catalog = "age" THEN @ + 1 ELSE @,
                        !.j = IF fd.catalog = "age" THEN @ ELSE @ + 1]
    /\ UNCHANGED <<disk, dirs, config, f1, calls, tlog, ops, f2>>

\* faulty variant of lines 206-207: the error is swallowed and the loop
\* goes on with the next subject
AfterFailure_Swallowed(frame) == [frame EXCEPT !.pc = "loop", !.i = @ + 1]

\* lines 206-207 / 159-164: nothing catches the exception of _fetch_one
AfterFailure(frame) == [frame EXCEPT !.pc = "raised", !.err = "DownloadError"]

\* the exception of _fetch_file leaves _fetch_one and fetch_data
FetchFailed ==
    /\ fd.pc \in {"psg", "hyp"}
    /\ f1.pc = "raised"
    /\ fd' = AfterFailure(fd)
    /\ UNCHANGED <<disk, dirs, config, f1, calls, tlog, ops, f2>>

PathChoices == {NoPath, "/data"}
RequestPathChoices == {"/data"}

\* the call is over: its frames are gone, the caller holds the result
Leave ==
    /\ fd.pc \in {"done", "raised"}
    /\ fd' = IdleRequest
    /\ f1' = IdleCall
    /\ calls' = <<>>
    /\ tlog' = <<>>
    /\ UNCHANGED <<disk, dirs, config, ops, f2>>

AgeSubjectChoices == {0, 20, 61}
TemazepamSubjectChoices == {1, 2, 3, 23}
RecordingChoices == {NoRecording, <<1, 2>>}

SubjectLists(choices) ==
    UNION {[1..n -> choices] : n \in 0..MaxSubjects}

Request ==
    \E catalog \in {"age", "temazepam"} :
      \E subjects \in SubjectLists(IF catalog = "age" THEN AgeSubjectChoices
                                   ELSE TemazepamSubjectChoices),
         path \in RequestPathChoices, force_update \in BOOLEAN,
         recording \in RecordingChoices :
        StartFetchData(catalog, subjects, path, force_update, recording,
                       "False")

(***************************************************************************)
(* Direct calls of _fetch_one, as fetch_data makes them: the file name and *)
(* the checksum of one catalog row, a resolved cache root, a flag.         *)
(***************************************************************************)
DirectRows == {1, 2}

CallFetchOne ==
    /\ fd.pc = "idle"
    /\ f1.pc \in {"idle", "returned", "raised"}
    /\ ops < MaxCalls
    /\ \E r \in DirectRows, p \in PathChoices, force_update \in BOOLEAN :
          LET row == AgeRecords[r]
              path == DataPath(p, config)
          IN /\ f1' = EnterFetchOne(row.fname, row.sha, path, force_update)
             /\ calls' = Append(calls, CallEntry(row.fname, row.sha, path,
                                                 force_update))
    /\ ops' = ops + 1
    /\ UNCHANGED <<disk, dirs, config, fd, tlog, f2>>

Init ==
    /\ disk = [p \in {} |-> Genuine("")]
    /\ dirs = {}
    /\ config = NoPath
    /\ f1 = IdleCall
    /\ f2 = IdleCall
    /\ fd = IdleRequest
    /\ calls = <<>>
    /\ tlog = <<>>
    /\ ops = 0

NextFetchOne ==
    \/ CallFetchOne
    \/ FetchOneSteps

SpecFetchOne == Init /\ [][NextFetchOne]_vars

(***************************************************************************)
(* Properties of _fetch_one, checked under SpecFetchOne.                   *)
(***************************************************************************)
OkCount(destination) ==
    Cardinality({k \in DOMAIN tlog : /\ tlog[k].destination = destination
                                     /\ tlog[k].result = "ok"})

Destinations == {Destination(calls[k].path, calls[k].fname) : k \in DOMAIN calls}

\* C1: every path a _fetch_one call returns names a file that exists at the
\* moment of return and whose content has the checksum passed to the call.
C1_ReturnedPathIsVerified ==
    f1.pc = "returned" =>
        /\ IsFile(disk, F1Dest)
        /\ Sha1(disk[F1Dest]) = f1.hashsum

\* a forced re-download returns after an earlier download has failed
C1_Witness ==
    /\ f1.pc = "returned"
    /\ f1.force_update /\ f1.existed /\ f1.ncalls = 1
    /\ \E k \in DOMAIN tlog : tlog[k].result = "failed"

\* C2: while no call has used force_update, at most one transport call
\* succeeds per destination, and a call that finds the file cached issues no
\* transport call.
C2_OneDownloadPerFile ==
    /\ (\A k \in DOMAIN calls : ~calls[k].force_update) =>
           \A d \in Destinations : OkCount(d) <= 1
    /\ (f1.pc # "idle" /\ f1.existed /\ ~f1.force_update) => f1.ncalls = 0

\* the third call for one file returns from the cache after a failed and a
\* successful download
C2_Witness ==
    /\ Len(calls) = 3
    /\ \A k \in DOMAIN calls : ~calls[k].force_update
    /\ Cardinality(Destinations) = 1
    /\ Len(tlog) = 2 /\ tlog[1].result = "failed" /\ tlog[2].result = "ok"
    /\ f1.pc = "returned" /\ f1.existed /\ f1.ncalls = 0

\* C3: a call with force_update issues exactly one transport call, for the
\* requested file, whether or not the destination existed before the call.
C3_ForcedCallFetchesOnce ==
    f1.force_update =>
        /\ f1.ncalls <= 1
        /\ f1.pc \in {"fetching", "return", "returned", "raised"} =>
              /\ f1.ncalls = 1
              /\ tlog[Len(tlog)].destination = F1Dest
              /\ tlog[Len(tlog)].url = Url(f1.fname)

\* a forced call over an existing file has ended with its one transport call
C3_Witness ==
    /\ f1.force_update /\ f1.existed
    /\ f1.pc = "returned" /\ f1.ncalls = 1

\* C4, as claimed: during a re-fetch of an existing file the destination
\* always holds the previous or the new copy.
C4_AtomicReplace ==
    (f1.pc # "idle" /\ f1.force_update /\ f1.existed) => IsFile(disk, F1Dest)

\* C4, amended: a re-fetch deletes the previous copy before the transport is
\* invoked; the destination is empty while the transport runs and after it
\* fails, and holds the new verified copy only after it succeeds.
C4_DeleteThenDownload ==
    (f1.force_update /\ f1.existed) =>
        /\ f1.pc \in {"check", "remove"} =>
              IsFile(disk, F1Dest) /\ Sha1(disk[F1Dest]) = f1.before
        /\ f1.pc \in {"mkdir", "fetch", "fetching", "raised"} =>
              ~IsFile(disk, F1Dest)
        /\ f1.pc \in {"return", "returned"} =>
              IsFile(disk, F1Dest) /\ Sha1(disk[F1Dest]) = f1.hashsum

\* a re-fetch has failed and the copy held before the call is gone
C4_Witness ==
    /\ f1.force_update /\ f1.existed
    /\ f1.pc = "raised"
    /\ ~IsFile(disk, F1Dest)

\* C17: whenever _fetch_one invokes the transport, no file exists at the
\* destination (a stale copy has been deleted) and the destination's parent
\* directory exists, with the directories above it.
C17_CleanSlotBeforeTransport ==
    f1.pc \in {"fetch", "fetching"} =>
        /\ ~IsFile(disk, F1Dest)
        /\ f1.path \in dirs
        /\ Ancestors(f1.path) \subseteq dirs

\* the transport runs for a forced call whose stale copy has been deleted
C17_Witness ==
    /\ f1.pc = "fetching"
    /\ f1.existed /\ f1.force_update
    /\ ~IsFile(disk, F1Dest)
    /\ dirs = {"~/mne_data", "~/mne_data/physionet-sleep-data"}

(***************************************************************************)
(* _fetch_one over a cache that something else has written to: between     *)
(* two calls a file of arbitrary (damaged) content may appear at a          *)
(* destination, left there by another program or an interrupted copy.      *)
(***************************************************************************)
StaleRoots == {"/data"}

PlaceFile ==
    /\ fd.pc = "idle"
    /\ f1.pc \in {"idle", "returned", "raised"}
    /\ \E r \in DirectRows, p \in StaleRoots :
          LET root == DataPath(p, config)
              d == Destination(root, AgeRecords[r].fname)
          IN /\ IsFile(disk, d) => disk[d].intact
             /\ disk' = WriteFile(disk, d, Damaged(AgeRecords[r].fname))
             /\ dirs' = MakeDirs(dirs, root)
    /\ UNCHANGED <<config, f1, fd, calls, tlog, ops, f2>>

CallOnStaleCache ==
    /\ fd.pc = "idle"
    /\ f1.pc \in {"idle", "returned", "raised"}
    /\ ops < MaxCalls
    /\ \E r \in DirectRows, p \in StaleRoots, force_update \in BOOLEAN :
          LET row == AgeRecords[r]
              path == DataPath(p, config)
          IN /\ f1' = EnterFetchOne(row.fname, row.sha, path, force_update)
             /\ calls' = Append(calls, CallEntry(row.fname, row.sha, path,
                                                 force_update))
    /\ ops' = ops + 1
    /\ UNCHANGED <<disk, dirs, config, fd, tlog, f2>>

NextStale ==
    \/ PlaceFile
    \/ CallOnStaleCache
    \/ FetchOneSteps

SpecStale == Init /\ [][NextStale]_vars

InProgress == f1.pc \in {"check", "remove", "mkdir", "fetch", "fetching", "return"}

\* C20: a call with force_update=False whose destination exists leaves the
\* filesystem unchanged (no file deleted or rewritten, no directory created,
\* no transport call and so no verification) and returns the destination,
\* whatever the content of the existing file is.
C20_CacheHitTouchesNothing ==
    [][(InProgress /\ ~f1.force_update /\ f1.existed) =>
          /\ disk' = disk
          /\ dirs' = dirs
          /\ tlog' = tlog
          /\ f1'.pc \in {"return", "returned"}
          /\ f1'.ncalls = 0
          /\ Destination(f1'.path, f1'.fname) = F1Dest]_vars

\* a call has returned the path of a file whose content does not have the
\* checksum it was given
C20_Witness ==
    /\ f1.pc = "returned"
    /\ ~f1.force_update /\ f1.existed /\ f1.ncalls = 0
    /\ IsFile(disk, F1Dest)
    /\ Sha1(disk[F1Dest]) # f1.hashsum
    /\ Sha1(disk[F1Dest]) = f1.before

(***************************************************************************)
(* Properties of fetch_data, checked under Spec.                           *)
(***************************************************************************)
AgeClaimedMaxSubject == 19

\* the request's arguments were accepted by the signature
Bound == fd.pc # "idle" /\ fd.err # "TypeError"

\* a subject outside the domain of the catalog the code loads
OutOfDomain(catalog, subject) ==
    IF catalog = "age" THEN subject \notin 0..AgeMaxSubject
    ELSE subject \notin ((1..24) \ {3, 23})

BadPositions ==
    {k \in DOMAIN fd.subjects : OutOfDomain(fd.catalog, fd.subjects[k])}

AgeFiles(subject) ==
    {AgeRecords[r].fname :
        r \in {q \in DOMAIN AgeRecords : AgeRecords[q].index = subject}}

\* the transport and _fetch_one calls seen so far are all for files of the
\* subjects at the positions before k
OnlyBefore(k) ==
    LET allowed == UNION {AgeFiles(fd.subjects[p]) : p \in 1..(k - 1)}
    IN /\ \A e \in DOMAIN tlog :
             \E f \in allowed : tlog[e].destination = Join(fd.root, f)
       /\ \A c \in DOMAIN calls : calls[c].fname \in allowed

\* C5, as claimed: for both catalogs a request that names a subject outside
\* the domain issues no transport call.
C5_NoTransportBeforeError ==
    (fd.pc # "idle" /\ BadPositions # {}) => tlog = <<>>

\* C5, amended: temazepam raises before any transport call; age raises when
\* the first out-of-domain subject is reached, after the transport calls of
\* the subjects before it and of no other.
C5_ErrorBeforeTransportPerCatalog ==
    (Bound /\ BadPositions # {}) =>
        /\ fd.catalog = "temazepam" =>
              /\ tlog = <<>>
              /\ fd.pc # "validate" => fd.pc = "raised" /\ fd.err = "RuntimeError"
        /\ fd.catalog = "age" =>
              /\ OnlyBefore(Min(BadPositions))
              /\ fd.err = "AssertionError" => fd.i = Min(BadPositions)

\* age raises on the second subject after two transport calls for the first
C5_Witness ==
    /\ fd.catalog = "age" /\ fd.subjects = <<0, 61>>
    /\ fd.pc = "raised" /\ fd.err = "AssertionError"
    /\ Len(tlog) = 2

\* C6, as claimed: the age catalog accepts exactly the subjects 0..19 and
\* rejects every other subject with a validation error.
C6_AgeDomainIs0To19 ==
    (fd.catalog = "age" /\ Bound /\ Ended /\ fd.err # "DownloadError") =>
        IF \A k \in DOMAIN fd.subjects : fd.subjects[k] \in 0..AgeClaimedMaxSubject
        THEN fd.pc = "done"
        ELSE fd.pc = "raised" /\ fd.err \in {"ValueError", "AssertionError"}

\* C7: the age catalog stops at the first subject its check rejects: no
\* lookup, no _fetch_one call and no transport call is made for that subject
\* or a later one, and the call ends with the assertion's error.
C7_AgeFailsFast ==
    (fd.catalog = "age" /\ Bound /\ BadPositions # {}) =>
        LET k == Min(BadPositions)
        IN /\ fd.i <= k
           /\ \A p \in Range(fd.looked) \cup Range(fd.fetched) : p < k
           /\ OnlyBefore(k)
           /\ (fd.i = k /\ fd.pc \notin {"data_path", "loop"}) =>
                 fd.pc = "raised" /\ fd.err = "AssertionError"

\* the rejected subject comes first; the valid one after it is never touched
C7_Witness ==
    /\ fd.catalog = "age" /\ fd.subjects = <<61, 0>>
    /\ fd.pc = "raised" /\ fd.err = "AssertionError"
    /\ fd.i = 1 /\ fd.looked = <<>> /\ calls = <<>> /\ tlog = <<>>

C9_PairsPerRequestedSession ==
    (Ended /\ fd.err # "DownloadError" /\ BadPositions = {}
           /\ fd.recording # NoRecording /\ fd.catalog = "age"
           /\ fd.subjects # <<>>
           /\ \A k \in DOMAIN fd.subjects : fd.subjects[k] <= AgeClaimedMaxSubject) =>
        /\ fd.pc = "done"
        /\ Len(fd.fnames) = Len(fd.subjects) * Len(fd.recording)

\* C10, as claimed: a request that starts with an empty cache and returns N
\* pairs has issued 2*N transport calls.
C10_TwoCallsPerPair ==
    (fd.pc = "done" /\ fd.emptyAtStart) => Len(tlog) = 2 * Len(fd.fnames)

ReturnedFiles == UNION {{fd.fnames[k][1], fd.fnames[k][2]} : k \in DOMAIN fd.fnames}

\* C10, amended: without force_update the request issues one transport call
\* per distinct file of the result (2*N when no subject is repeated); with
\* force_update it issues 2*N.
C10_OneCallPerDistinctFile ==
    (fd.pc = "done" /\ fd.emptyAtStart) =>
        /\ Len(tlog) = IF fd.force_update THEN 2 * Len(fd.fnames)
                       ELSE Cardinality(ReturnedFiles)
        /\ Cardinality(Range(fd.subjects)) = Len(fd.subjects) =>
              Len(tlog) = 2 * Len(fd.fnames)

\* the same subject twice: two pairs returned, two transport calls issued
C10_Witness ==
    /\ fd.pc = "done" /\ fd.emptyAtStart /\ ~fd.force_update
    /\ fd.subjects = <<0, 0>>
    /\ Len(fd.fnames) = 2 /\ Len(tlog) = 2

FailedAt == {k \in DOMAIN tlog : tlog[k].result = "failed"}

\* C11, as claimed: when a transport call of a request fails, the request
\* ends with the download error and returns no list, no further transport
\* call is issued, and every file an earlier transport call of the request
\* wrote is still in the cache.
C11_FailureKeepsEarlierFiles ==
    (fd.pc # "idle" /\ FailedAt # {}) =>
        /\ FailedAt = {Len(tlog)}
        /\ fd.pc \in {"psg", "hyp", "raised"}
        /\ fd.pc = "raised" => fd.err = "DownloadError"
        /\ \A k \in DOMAIN tlog :
              tlog[k].result = "ok" => IsFile(disk, tlog[k].destination)

\* C11, amended: as claimed, except that the file the failing call was
\* re-fetching (force_update and a subject named twice) is gone: the earlier
\* copy was deleted before the transport call that failed.
C11_FailureKeepsOtherFiles ==
    (fd.pc # "idle" /\ FailedAt # {}) =>
        /\ FailedAt = {Len(tlog)}
        /\ fd.pc \in {"psg", "hyp", "raised"}
        /\ fd.pc = "raised" => fd.err = "DownloadError"
        /\ \A k \in DOMAIN tlog :
              tlog[k].result = "ok" =>
                 /\ IsFile(disk, tlog[k].destination)
                       <=> tlog[k].destination # tlog[Len(tlog)].destination
                 /\ ~fd.force_update => IsFile(disk, tlog[k].destination)

\* the download of the second subject's first file fails; both files of the
\* first subject are in the cache
C11_Witness ==
    /\ fd.pc = "raised" /\ fd.err = "DownloadError"
    /\ fd.subjects = <<0, 20>>
    /\ Len(tlog) = 3 /\ tlog[3].result = "failed"
    /\ \A k \in 1..2 : IsFile(disk, tlog[k].destination)

PlaceboRows(subject) ==
    {r \in DOMAIN TemazepamRecords :
        /\ TemazepamRecords[r].subject = subject
        /\ TemazepamRecords[r].record = "Placebo night"}

\* the files of the rows of another session category
OtherNightFiles ==
    UNION {{TemazepamRecords[r].psg_fname, TemazepamRecords[r].hyp_fname} :
             r \in {q \in DOMAIN TemazepamRecords :
                       TemazepamRecords[q].record # "Placebo night"}}

RECURSIVE CountPlacebo(_)
CountPlacebo(subjects) ==
    IF subjects = <<>> THEN 0
    ELSE Cardinality(PlaceboRows(Head(subjects))) + CountPlacebo(Tail(subjects))

\* C15: the temazepam catalog fetches and returns only placebo-night
\* sessions: no _fetch_one call, transport call or returned pair is for a
\* file of another session category, and a request returns one pair per
\* placebo-night row of each occurrence of a subject.
C15_OnlyPlaceboNights ==
    (fd.catalog = "temazepam" /\ Bound) =>
        /\ \A c \in DOMAIN calls :
              /\ calls[c].fname \notin OtherNightFiles
              /\ \E k \in DOMAIN fd.subjects : \E r \in PlaceboRows(fd.subjects[k]) :
                    calls[c].fname \in {TemazepamRecords[r].psg_fname,
                                        TemazepamRecords[r].hyp_fname}
        /\ \A e \in DOMAIN tlog : \A f \in OtherNightFiles :
              tlog[e].destination # Join(fd.root, f)
        /\ \A f \in OtherNightFiles : Join(fd.root, f) \notin ReturnedFiles
        /\ fd.pc = "done" => Len(fd.fnames) = CountPlacebo(fd.subjects)

\* subject 2, whose placebo night is its second row, asked for twice
C15_Witness ==
    /\ fd.catalog = "temazepam" /\ fd.pc = "done"
    /\ fd.subjects = <<2, 2>>
    /\ Len(fd.fnames) = 2
    /\ fd.fnames[1][1] = "/data/physionet-sleep-data/ST7022J0-PSG.edf"

\* the (remote filename, checksum) entries of a catalog, one per row and role
AgeCatalogFiles ==
    {[fname |-> AgeRecords[r].fname, sha |-> AgeRecords[r].sha] :
        r \in DOMAIN AgeRecords}

TemazepamCatalogFiles ==
    {[fname |-> TemazepamRecords[r].psg_fname,
      sha |-> TemazepamRecords[r].psg_sha] : r \in DOMAIN TemazepamRecords}
    \cup
    {[fname |-> TemazepamRecords[r].hyp_fname,
      sha |-> TemazepamRecords[r].hyp_sha] : r \in DOMAIN TemazepamRecords}

CatalogFiles(catalog) ==
    IF catalog = "age" THEN AgeCatalogFiles ELSE TemazepamCatalogFiles

\* C16: every transport call of a request is consistent with one catalog
\* entry: url = base URL + '/' + filename, destination = cache root joined
\* with the same filename, checksum of the same entry, hash type 'sha1'.
C16_TransportCallMatchesOneRow ==
    fd.pc # "idle" =>
        \A e \in DOMAIN tlog :
            \E row \in CatalogFiles(fd.catalog) :
                /\ tlog[e].url = "https://physionet.org/pn4/sleep-edfx/" \o "/"
                                    \o row.fname
                /\ tlog[e].destination = fd.root \o "/" \o row.fname
                /\ tlog[e].hash_ = row.sha
                /\ tlog[e].hash_type = "sha1"

\* the second transport call of an age request carries the hypnogram's own
\* checksum
C16_Witness ==
    /\ fd.catalog = "age" /\ fd.pc = "done" /\ fd.subjects = <<20>>
    /\ Len(tlog) = 2
    /\ tlog[2].url = "https://physionet.org/pn4/sleep-edfx//SC4101EC-Hypnogram.edf"
    /\ tlog[2].destination = "/data/physionet-sleep-data/SC4101EC-Hypnogram.edf"
    /\ tlog[2].hash_ = "sha1:SC4101EC-Hypnogram.edf"

\* the destinations of the _fetch_one calls and of the transport calls
CallDests == [c \in DOMAIN calls |-> Destination(calls[c].path, calls[c].fname)]
TransportDests == [e \in DOMAIN tlog |-> tlog[e].destination]

RECURSIVE IsSubseq(_, _)
IsSubseq(a, b) ==
    IF a = <<>> THEN TRUE
    ELSE IF b = <<>> THEN FALSE
    ELSE IF Head(a) = Head(b) THEN IsSubseq(Tail(a), Tail(b))
    ELSE IsSubseq(a, Tail(b))

AgePsgFiles ==
    {AgeRecords[r].fname : r \in {q \in DOMAIN AgeRecords : q % 2 = 1}}
AgeHypFiles ==
    {AgeRecords[r].fname : r \in {q \in DOMAIN AgeRecords : q % 2 = 0}}
TemazepamPsgFiles ==
    {TemazepamRecords[r].psg_fname : r \in DOMAIN TemazepamRecords}
TemazepamHypFiles ==
    {TemazepamRecords[r].hyp_fname : r \in DOMAIN TemazepamRecords}

PsgFiles(catalog) ==
    IF catalog = "age" THEN AgePsgFiles ELSE TemazepamPsgFiles

HypFiles(catalog) ==
    IF catalog = "age" THEN AgeHypFiles ELSE TemazepamHypFiles

\* one transport call at a time; the files are visited pair by pair, the
\* PSG file before the hypnogram; the transport calls follow that order
SequentialInPairOrder ==
    /\ \A e \in DOMAIN tlog : tlog[e].result = "running" => e = Len(tlog)
    /\ \A c \in DOMAIN calls :
          calls[c].fname \in (IF c % 2 = 1 THEN PsgFiles(fd.catalog)
                              ELSE HypFiles(fd.catalog))
    /\ \A k \in DOMAIN fd.fnames :
          /\ 2 * k <= Len(calls)
          /\ fd.fnames[k] = <<CallDests[2 * k - 1], CallDests[2 * k]>>
    /\ fd.pc = "done" => Len(calls) = 2 * Len(fd.fnames)
    /\ IsSubseq(TransportDests, CallDests)

\* C19, as claimed: the transport calls of a request are sequential, follow
\* the order of the returned pairs with the PSG file before the hypnogram,
\* and the last transport call is for the hypnogram of the last pair.
C19_LastCallIsLastHypnogram ==
    Bound =>
        /\ SequentialInPairOrder
        /\ (fd.pc = "done" /\ tlog # <<>>) =>
              tlog[Len(tlog)].destination = fd.fnames[Len(fd.fnames)][2]

\* C19, amended: sequential and in pair order as claimed, cached files being
\* skipped; the last transport call is for the hypnogram of the last pair
\* when force_update is set, and otherwise for the last file of the result
\* that was not in the cache when its turn came.
C19_SequentialSkippingCached ==
    Bound =>
        /\ SequentialInPairOrder
        /\ (fd.pc = "done" /\ fd.force_update) =>
              /\ TransportDests = CallDests
              /\ fd.fnames # <<>> =>
                    tlog[Len(tlog)].destination = fd.fnames[Len(fd.fnames)][2]
        /\ (fd.pc = "done" /\ ~fd.force_update /\ fd.emptyAtStart) =>
              /\ Range(TransportDests) = Range(CallDests)
              /\ Len(tlog) = Cardinality(Range(CallDests))

\* the files of the last pair were cached by an earlier request: the last
\* transport call is for the hypnogram of the first pair
C19_Witness ==
    /\ fd.catalog = "age" /\ fd.pc = "done" /\ ~fd.force_update
    /\ fd.subjects = <<20, 0>>
    /\ Len(tlog) = 2
    /\ tlog[2].destination = fd.fnames[1][2]
    /\ tlog[2].destination # fd.fnames[2][2]

(***************************************************************************)
(* A caller that retries one batch: it asks for a batch of valid subjects  *)
(* with force_update=False and, whenever the call ends with a download     *)
(* error, calls fetch_data again with the same arguments.  Of the          *)
(* transport calls of the failed attempts the caller remembers the         *)
(* successful ones.                                                        *)
(***************************************************************************)
AgeValidChoices == {0, 20}
TemazepamValidChoices == {1, 2}

IsOk(entry) == entry.result = "ok"

RetryBatch ==
    /\ ops = 0
    /\ \E catalog \in {"age", "temazepam"} :
         \E subjects \in SubjectLists(IF catalog = "age" THEN AgeValidChoices
                                      ELSE TemazepamValidChoices) :
            StartFetchData(catalog, subjects, "/data", FALSE, NoRecording,
                           "False")

RetryFetchData ==
    /\ fd.pc = "raised"
    /\ fd.err = "DownloadError"
    /\ fd' = [IdleRequest EXCEPT
                !.pc = IF fd.catalog = "age" THEN "data_path" ELSE "validate",
                !.catalog = fd.catalog, !.subjects = fd.subjects,
                !.path = fd.path, !.force_update = fd.force_update,
                !.update_path = fd.update_path,
                !.emptyAtStart = (DOMAIN disk = {}),
                !.retried = TRUE]
    /\ f1' = IdleCall
    /\ calls' = <<>>
    /\ tlog' = SelectSeq(tlog, IsOk)
    /\ UNCHANGED <<disk, dirs, config, ops, f2>>

\* the transport call ends well
TransportOk == TransportDone /\ f1'.pc = "return"

NextRetry ==
    \/ RetryBatch
    \/ RetryFetchData
    \/ TemazepamValidate
    \/ ResolvePath
    \/ AgeLoop
    \/ TemazepamLoop
    \/ TemazepamRow
    \/ AfterPsg
    \/ AfterHyp
    \/ FetchFailed
    \/ FetchOneSteps

\* the program and its caller keep running; a transport call that is tried
\* again and again eventually succeeds
SpecRetry ==
    /\ Init
    /\ [][NextRetry]_vars
    /\ WF_vars(NextRetry)
    /\ SF_vars(TransportOk)

OkDestinations == {tlog[k].destination : k \in {e \in DOMAIN tlog : IsOk(tlog[e])}}

RetrySafe ==
    /\ f1.pc \in {"remove", "mkdir", "fetch", "fetching"} =>
          ~f1.existed /\ F1Dest \notin OkDestinations
    /\ Len(SelectSeq(tlog, IsOk)) = Cardinality(OkDestinations)
    /\ fd.pc = "done" =>
          /\ Len(fd.fnames) = Len(fd.subjects)
          /\ \A f \in ReturnedFiles : IsFile(disk, f)
          /\ OkDestinations = ReturnedFiles
          /\ Len(SelectSeq(tlog, IsOk)) = Cardinality(ReturnedFiles)

\* C12: retrying a batch with force_update=False issues transport calls only
\* for files not yet in the cache; when transport calls eventually succeed,
\* some retry returns the full result, and the successful transport calls of
\* all attempts together are one per distinct file of the batch.
C12_RetryCompletes ==
    /\ []RetrySafe
    /\ (fd.pc # "idle") ~> (fd.pc = "done")

\* a batch of two subjects is complete after at least one failed attempt
C12_Witness ==
    /\ fd.pc = "done" /\ fd.retried
    /\ fd.subjects = <<0, 20>>
    /\ Len(fd.fnames) = 2
    /\ Len(SelectSeq(tlog, IsOk)) = 4

(***************************************************************************)
(* Requests with and without an explicit path and with either value of     *)
(* update_path, while the setting is changed from outside (mne.set_config, *)
(* the environment) at any moment.                                         *)
(***************************************************************************)
SettingChoices == {NoPath, "/conf"}
UpdatePathChoices == {"True", "False"}
PathAgeChoices == {0, 61}
PathTemazepamChoices == {1, 3}

SetConfig ==
    /\ \E v \in SettingChoices : v # config /\ config' = v
    /\ UNCHANGED <<disk, dirs, f1, fd, calls, tlog, ops, f2>>

PathRequest ==
    \E catalog \in {"age", "temazepam"} :
      \E subjects \in SubjectLists(IF catalog = "age" THEN PathAgeChoices
                                   ELSE PathTemazepamChoices),
         path \in PathChoices, update_path \in UpdatePathChoices :
        StartFetchData(catalog, subjects, path, FALSE, NoRecording, update_path)

NextPath ==
    \/ SetConfig
    \/ PathRequest
    \/ TemazepamValidate
    \/ ResolvePath
    \/ AgeLoop
    \/ TemazepamLoop
    \/ TemazepamRow
    \/ AfterPsg
    \/ AfterHyp
    \/ FetchFailed
    \/ Leave
    \/ FetchOneSteps

SpecPath == Init /\ [][NextPath]_vars

\* the directory the precedence rule selects for the current request
Preferred ==
    IF fd.path # NoPath THEN fd.path
    ELSE IF fd.setting # NoPath THEN fd.setting
    ELSE "~/mne_data"

\* C13, as claimed: the resolver's result is the explicit path itself when
\* one is given, else the setting, else the default.
C13_ResultIsPreferredPath ==
    fd.npaths > 0 => fd.root = Preferred

\* C13, amended: the result is the directory 'physionet-sleep-data' under
\* the explicit path when one is given, else under the setting, else under
\* the default.
C13_ResultIsUnderPreferredPath ==
    fd.npaths > 0 => fd.root = Preferred \o "/physionet-sleep-data"

\* an explicit path wins over a setting that exists
C13_Witness ==
    /\ fd.npaths = 1
    /\ fd.path = "/data" /\ fd.setting = "/conf"
    /\ fd.root = "/data/physionet-sleep-data"

\* C14, as claimed: the resolver writes the resolved path into the settings
\* exactly when no explicit path was given and update_path is true, and
\* leaves the settings unchanged otherwise.
C14_PersistsWhenAsked ==
    [][(fd.pc = "data_path" /\ fd'.pc # "data_path") =>
          config' = IF fd.path = NoPath /\ fd.update_path = "True"
                    THEN GetPath(fd.path, config) ELSE config]_vars

\* C18, as claimed: the path resolver is invoked exactly once per request,
\* only after the validation of the whole request has passed and before the
\* first _fetch_one call, and every _fetch_one call gets that cache root.
C18_ValidateResolveFetch ==
    Bound =>
        /\ fd.npaths <= 1
        /\ fd.npaths = 1 => BadPositions = {}
        /\ (calls # <<>> \/ fd.pc = "done") => fd.npaths = 1
        /\ \A c \in DOMAIN calls : calls[c].path = fd.root

\* C18, amended: the resolver is invoked exactly once per request, before
\* the first _fetch_one call, and every _fetch_one call gets that cache
\* root, whatever happens to the setting meanwhile.  The temazepam catalog
\* resolves only after the whole request has been validated; the age catalog
\* resolves first and checks each subject inside the fetch loop.
C18_ResolveOnceBeforeFetch ==
    Bound =>
        /\ fd.npaths <= 1
        /\ fd.catalog = "temazepam" =>
              /\ fd.npaths = 1 => BadPositions = {}
              /\ fd.pc = "validate" => fd.npaths = 0
        /\ fd.catalog = "age" =>
              /\ fd.npaths = 0 <=> fd.pc = "data_path"
              /\ fd.npaths = 0 => fd.looked = <<>> /\ fd.err = ""
        /\ (calls # <<>> \/ tlog # <<>> \/ fd.pc = "done") => fd.npaths = 1
        /\ fd.npaths = 1 =>
              fd.root = Preferred \o "/physionet-sleep-data"
        /\ \A c \in DOMAIN calls : calls[c].path = fd.root
        /\ \A e \in DOMAIN tlog : \E c \in DOMAIN calls :
              tlog[e].destination = fd.root \o "/" \o calls[c].fname

\* four _fetch_one calls under the root taken from the setting, which has
\* been changed since
C18_Witness ==
    /\ fd.catalog = "age" /\ fd.pc = "done" /\ fd.subjects = <<0, 0>>
    /\ fd.path = NoPath /\ fd.setting = "/conf" /\ config = NoPath
    /\ fd.npaths = 1 /\ Len(calls) = 4
    /\ \A c \in DOMAIN calls : calls[c].path = "/conf/physionet-sleep-data"

(***************************************************************************)
(* Two processes that run _fetch_one on the same cache root.  Nothing in   *)
(* lines 128-139 takes a lock, so the statements of the two calls          *)
(* interleave line by line; f is the frame of the process that moves, g    *)
(* its frame after the step.                                               *)
(***************************************************************************)
RaceRoots == {"/data"}

RaceDest(f) == Destination(f.path, f.fname)

RaceCall(f, g) ==
    /\ f.pc \in {"idle", "returned", "raised"}
    /\ ops < MaxCalls
    /\ \E r \in DirectRows, p \in RaceRoots, force_update \in BOOLEAN :
          g = EnterFetchOne(AgeRecords[r].fname, AgeRecords[r].sha,
                            DataPath(p, config), force_update)
    /\ ops' = ops + 1
    /\ UNCHANGED <<disk, dirs>>

\* line 132
RaceLine132(f, g) ==
    /\ f.pc = "check"
    /\ g = [f EXCEPT !.pc = IF NeedsFetch(IsFile(disk, RaceDest(f)),
                                          f.force_update)
                            THEN "line133" ELSE "return"]
    /\ UNCHANGED <<disk, dirs, ops>>

\* line 133
RaceLine133(f, g) ==
    /\ f.pc = "line133"
    /\ g = [f EXCEPT !.pc = IF IsFile(disk, RaceDest(f)) THEN "line134"
                            ELSE "line135"]
    /\ UNCHANGED <<disk, dirs, ops>>

\* line 134: os.remove raises when the file has gone meanwhile
RaceLine134(f, g) ==
    /\ f.pc = "line134"
    /\ IF IsFile(disk, RaceDest(f))
       THEN /\ disk' = Remove(disk, RaceDest(f))
            /\ g = [f EXCEPT !.pc = "line135"]
       ELSE /\ g = [f EXCEPT !.pc = "raised", !.err = "FileNotFoundError"]
            /\ UNCHANGED disk
    /\ UNCHANGED <<dirs, ops>>

\* line 135
RaceLine135(f, g) ==
    /\ f.pc = "line135"
    /\ g = [f EXCEPT !.pc = IF f.path \in dirs THEN "line137" ELSE "line136"]
    /\ UNCHANGED <<disk, dirs, ops>>

\* line 136: os.makedirs raises when the directory has appeared meanwhile
RaceLine136(f, g) ==
    /\ f.pc = "line136"
    /\ IF f.path \in dirs
       THEN /\ g = [f EXCEPT !.pc = "raised", !.err = "FileExistsError"]
            /\ UNCHANGED dirs
       ELSE /\ dirs' = dirs \cup {f.path} \cup Ancestors(f.path)
            /\ g = [f EXCEPT !.pc = "line137"]
    /\ UNCHANGED <<disk, ops>>

\* lines 137-138: _fetch_file is invoked
RaceLine137(f, g) ==
    /\ f.pc = "line137"
    /\ g = [f EXCEPT !.pc = "fetching", !.ncalls = @ + 1]
    /\ UNCHANGED <<disk, dirs, ops>>

\* the transport ends: the destination is written when the downloaded
\* content has the expected checksum
RaceTransportDone(f, g) ==
    /\ f.pc = "fetching"
    /\ \E content \in {Genuine(f.fname), Damaged(f.fname)} :
          IF Sha1(content) = f.hashsum
          THEN /\ disk' = WriteFile(disk, RaceDest(f), content)
               /\ g = [f EXCEPT !.pc = "return"]
          ELSE /\ g = [f EXCEPT !.pc = "raised", !.err = "checksum mismatch"]
               /\ UNCHANGED disk
    /\ UNCHANGED <<dirs, ops>>

RaceTransportError(f, g) ==
    /\ f.pc = "fetching"
    /\ g = [f EXCEPT !.pc = "raised", !.err = "network error"]
    /\ UNCHANGED <<disk, dirs, ops>>

\* line 139
RaceLine139(f, g) ==
    /\ f.pc = "return"
    /\ g = [f EXCEPT !.pc = "returned", !.gone = ~IsFile(disk, RaceDest(f))]
    /\ UNCHANGED <<disk, dirs, ops>>

RaceStep(f, g) ==
    \/ RaceCall(f, g)
    \/ RaceLine132(f, g)
    \/ RaceLine133(f, g)
    \/ RaceLine134(f, g)
    \/ RaceLine135(f, g)
    \/ RaceLine136(f, g)
    \/ RaceLine137(f, g)
    \/ RaceTransportDone(f, g)
    \/ RaceTransportError(f, g)
    \/ RaceLine139(f, g)

Process1 == RaceStep(f1, f1') /\ UNCHANGED <<f2, config, fd, calls, tlog>>

Process2 == RaceStep(f2, f2') /\ UNCHANGED <<f1, config, fd, calls, tlog>>

NextRace ==
    \/ Process1
    \/ Process2

SpecRace == Init /\ [][NextRace]_vars

\* what a step does to a process (frame f, then g) that has reached its
\* return statement while the other process (frame o, then q) runs: the
\* file is at the destination when line 139 is reached; it can only vanish
\* from under the waiting process by the os.remove of the other process
\* (line 134) for the same destination; the process then returns the path
\* all the same
LostOnlyToOtherRemove(f, g, o, q) ==
    /\ (f.pc # "return" /\ g.pc = "return") => IsFile(disk', RaceDest(g))
    /\ (f.pc = "return" /\ IsFile(disk, RaceDest(f))
                        /\ ~IsFile(disk', RaceDest(f))) =>
          /\ o.pc = "line134" /\ q.pc = "line135"
          /\ RaceDest(o) = RaceDest(f)
          /\ g = f
    /\ (f.pc = "return" /\ g.pc = "returned") =>
          /\ g.gone = ~IsFile(disk, RaceDest(f))
          /\ RaceDest(g) = RaceDest(f)

\* C21: _fetch_one takes no lock: between the moment a process has the file
\* at its destination and its return, the other process can delete the file
\* (line 134), and the first then returns a path at which no file exists;
\* nothing else makes a returned path dangle.  C21_Witness is the
\* interleaving from an empty cache with force_update=False in both.
C21_MissingAtReturnOnlyByRace ==
    [][/\ LostOnlyToOtherRemove(f1, f1', f2, f2')
       /\ LostOnlyToOtherRemove(f2, f2', f1, f1')]_vars

\* from an empty cache and with force_update=False in both processes: the
\* first has downloaded the file and returned its path after the second
\* deleted the file
C21_Witness ==
    /\ ops = 2
    /\ ~f1.force_update /\ ~f2.force_update
    /\ ~f1.existed /\ ~f2.existed
    /\ f1.pc = "returned" /\ f1.ncalls = 1 /\ f1.gone
    /\ f2.pc = "line135" /\ f2.ncalls = 0
    /\ RaceDest(f2) = RaceDest(f1)
    /\ ~IsFile(disk, RaceDest(f1))

Next ==
    \/ Request
    \/ TemazepamValidate
    \/ ResolvePath
    \/ AgeLoop
    \/ TemazepamLoop
    \/ TemazepamRow
    \/ AfterPsg
    \/ AfterHyp
    \/ FetchFailed
    \/ Leave
    \/ FetchOneSteps

Spec == Init /\ [][Next]_vars

====
